---- MODULE Spec2Model ----
(***************************************************************************)
(* Topology-to-configuration engine of projet-gns: the RIP extractor       *)
(* (codes_rip/get_topology.py, codes_rip/cfg_generation.py), the BGP       *)
(* extractor (codes_bgp/get_topology_bgp.py, cfg_generation_bgp.py) and    *)
(* the OSPFv3 generator (codes_ospf/ospfv3_gen.py).                        *)
(*                                                                         *)
(* Addresses are integers.  Python's ipaddress module treats an integer    *)
(* below 2**32 as IPv4 and anything up to 2**128 as IPv6; the model keeps  *)
(* both families and that rule, with the widths scaled down to V4Bits and  *)
(* V6Bits (ratio 1:4, as 32:128) so that the end of each address space is  *)
(* reachable.                                                              *)
(***************************************************************************)
EXTENDS Integers, Sequences, FiniteSets, TLC

VARIABLES
    prog,            \* which entry point runs: "rip", "rip_cfg", "bgp", "ospf", "bgp_cfg",
                     \* "main_bgp"
    pc,              \* position in that entry point
    err,             \* the exception that ended the run, "" when none
    log,             \* the reports printed about skipped or unallocated links
    nodes_data,      \* input: the nodes, a sequence of [name, node_id], with the
                     \* router's "interfaces" list where topology.json is the input
    links_data,      \* input: the raw GNS3 links, [a, b] of [node_id, adapter_number, port_number]
    ip_base,         \* input: the base network as written, [fam, addr, prefixlen]
    asn_base,        \* input: base AS number (BGP)
    routers_list,    \* names in node order
    links,           \* links [a, a_iface, b, b_iface]
    current_net,     \* the block the next link will use
    subnet_gen,      \* OSPF: number of subnets the generator has yielded
    blocks,          \* history: what each processed link was given, in order:
                     \* [net, a, b], a and b the records written for its two ends
    interfaces_cfg,  \* router name -> sequence of interface records
    rip_networks,    \* router name -> set of network addresses (RIP)
    router_to_asn,   \* router name -> ASN (BGP), defined on the routers assigned so far
    router_to_neighbors, \* router name -> sequence of neighbor records (BGP)
    ipv6_assignments,    \* OSPF: (router, interface) -> (address, prefix length)
    router_id,       \* router name -> router id text, for the routers rendered so far
    topology_data,   \* the exported record
    config_lines,    \* OSPF: router name -> the lines of its rendered configuration
    topology_file,   \* topology_bgp.json in the working directory: "absent", "stale"
                     \* (left by an earlier run) or "fresh" (written by this run)
    cfg_runs,        \* the executions of cfg_generation_bgp so far, each with the
                     \* state of topology_file it read
    k                \* index of the next element of the running loop (1-based)

vars == <<prog, pc, err, log, nodes_data, links_data, ip_base, asn_base, routers_list,
          links, current_net, subnet_gen, blocks, interfaces_cfg, rip_networks,
          router_to_asn, router_to_neighbors, ipv6_assignments, router_id,
          topology_data, config_lines, topology_file, cfg_runs, k>>

----------------------------------------------------------------------------
(* Bounds of the model *)

\* width of an IPv4 address in the model (32 in ipaddress)
V4Bits == 4
\* longest link list explored with every choice of end points
MaxLinks == 2
\* longest chain of links explored with every base network
MaxChain == 3
\* longest router name explored by the router-id runs
MaxNameLen == 3

\* width of an IPv6 address in the model (128 in ipaddress): four times IPv4's
V6Bits == 4 * V4Bits

\* the prefix length of the subnets the OSPF generator carves (64 in the code):
\* half an IPv6 address
SubnetPrefix == 2 * V4Bits

----------------------------------------------------------------------------
(* ipaddress: networks are [fam, addr, prefixlen] *)

RECURSIVE Pow2(_)
Pow2(n) == IF n <= 0 THEN 1 ELSE 2 * Pow2(n - 1)

max_prefixlen(fam) == IF fam = 4 THEN V4Bits ELSE V6Bits

Net(fam, addr, prefixlen) == [fam |-> fam, addr |-> addr, prefixlen |-> prefixlen]

Addr(fam, n) == [fam |-> fam, n |-> n]

NoNet == Net(0, 0, 0)

num_addresses(net) == Pow2(max_prefixlen(net.fam) - net.prefixlen)

network_address(net) == Addr(net.fam, net.addr)

broadcast_int(net) == net.addr + num_addresses(net) - 1

\* netmask as the integer with the prefixlen high bits set
netmask(net) ==
    Addr(net.fam, Pow2(max_prefixlen(net.fam)) - num_addresses(net))

\* a in net: same family and inside the range
InNet(a, net) ==
    /\ a.fam = net.fam
    /\ net.addr <= a.n
    /\ a.n <= broadcast_int(net)

\* the integers of the usable hosts, in enumeration order
hosts(net) ==
    LET w  == max_prefixlen(net.fam)
        lo == net.addr
        hi == broadcast_int(net)
    IN  IF net.prefixlen = w THEN << lo >>
        ELSE IF net.prefixlen = w - 1 THEN << lo, hi >>
        ELSE IF net.fam = 4 THEN [j \in 1..(hi - lo - 1) |-> lo + j]
        ELSE [j \in 1..(hi - lo) |-> lo + j]

\* list(net.hosts()) materialises every host: a network larger than the whole
\* IPv4 space cannot be held in memory
HostsListable(net) == num_addresses(net) <= Pow2(V4Bits)

\* ipaddress.ip_address(n): the family an integer is read as, 0 when none
FamilyOfInt(n) ==
    IF n < 0 THEN 0
    ELSE IF n < Pow2(V4Bits) THEN 4
    ELSE IF n < Pow2(V6Bits) THEN 6
    ELSE 0

\* net.supernet(new_prefix = p); NoNet stands for ValueError
supernet(net, new_prefix) ==
    IF net.prefixlen = 0 THEN net
    ELSE IF new_prefix > net.prefixlen THEN NoNet
    ELSE LET size == Pow2(max_prefixlen(net.fam) - new_prefix)
         IN  Net(net.fam, net.addr - (net.addr % size), new_prefix)

\* ipaddress.ip_network(n) for an integer n: the single-address network
ip_network_int(n) ==
    IF FamilyOfInt(n) = 0 THEN NoNet
    ELSE Net(FamilyOfInt(n), n, max_prefixlen(FamilyOfInt(n)))

\* ipaddress.ip_network(f"{a}/{p}", strict=False) for an address a
ip_network_lax(a, p) ==
    IF a.fam = 0 \/ p > max_prefixlen(a.fam) THEN NoNet
    ELSE LET size == Pow2(max_prefixlen(a.fam) - p)
         IN  Net(a.fam, a.n - (a.n % size), p)

\* ipaddress.IPv6Address(n): fam 0 stands for AddressValueError
IPv6Address(n) == IF n < Pow2(V6Bits) THEN Addr(6, n) ELSE Addr(0, 0)

----------------------------------------------------------------------------
(* Names are strings, modelled as sequences of characters *)

R1 == <<"R", "1">>
R2 == <<"R", "2">>
R3 == <<"R", "3">>
R10 == <<"R", "1", "0">>

\* the characters used, in code point order ("." < "0" < "9" < ":" < "R" < "a")
Alphabet == <<".", "0", "1", "2", "3", "4", "5", "6", "7", "8", "9", ":", "R", "a">>

DigitChars == <<"0", "1", "2", "3", "4", "5", "6", "7", "8", "9">>

Ord(c) == CHOOSE j \in 1..Len(Alphabet) : Alphabet[j] = c

Digits == {DigitChars[j] : j \in 1..Len(DigitChars)}

\* Python's s < t on strings
RECURSIVE StrLess(_, _)
StrLess(s, t) ==
    IF t = <<>> THEN FALSE
    ELSE IF s = <<>> THEN TRUE
    ELSE IF Head(s) = Head(t) THEN StrLess(Tail(s), Tail(t))
    ELSE Ord(Head(s)) < Ord(Head(t))

\* insert x into the sorted sequence q, after the elements not greater than x
RECURSIVE InsertSorted(_, _)
InsertSorted(x, q) ==
    IF q = <<>> THEN <<x>>
    ELSE IF StrLess(x, Head(q)) THEN <<x>> \o q
    ELSE <<Head(q)>> \o InsertSorted(x, Tail(q))

\* sorted(q) on a list of strings
RECURSIVE sorted(_)
sorted(q) == IF q = <<>> THEN <<>> ELSE InsertSorted(q[Len(q)], sorted(SubSeq(q, 1, Len(q) - 1)))

Range(q) == {q[j] : j \in 1..Len(q)}

----------------------------------------------------------------------------
(* GNS3 extraction shared by the RIP and BGP extractors *)

get_interface_name(adapter, port) ==
    IF adapter = 0 THEN <<"FastEthernet", adapter, port>>
    ELSE <<"GigabitEthernet", adapter, port>>

\* id_to_name after the node loop: the last node with that id wins
KnownIds == {nodes_data[j].node_id : j \in 1..Len(nodes_data)}

id_to_name(id) ==
    LET last == CHOOSE j \in 1..Len(nodes_data) :
                    /\ nodes_data[j].node_id = id
                    /\ \A j2 \in (j + 1)..Len(nodes_data) : nodes_data[j2].node_id # id
    IN  nodes_data[last].name

\* the links both of whose ends are known routers, in input order
RECURSIVE ResolvedLinks(_)
ResolvedLinks(raw) ==
    IF raw = <<>> THEN <<>>
    ELSE LET l == Head(raw)
         IN  (IF l.a.node_id \in KnownIds /\ l.b.node_id \in KnownIds
              THEN << [a |-> id_to_name(l.a.node_id),
                       a_iface |-> get_interface_name(l.a.adapter_number, l.a.port_number),
                       b |-> id_to_name(l.b.node_id),
                       b_iface |-> get_interface_name(l.b.adapter_number, l.b.port_number)] >>
              ELSE <<>>)
             \o ResolvedLinks(Tail(raw))

Names == Range([j \in 1..Len(nodes_data) |-> nodes_data[j].name])

\* str(n) for a non-negative integer: its decimal digits
RECURSIVE DecStr(_)
DecStr(n) ==
    IF n < 10 THEN <<DigitChars[n + 1]>>
    ELSE DecStr(n \div 10) \o <<DigitChars[(n % 10) + 1]>>

\* str(address): IPv4 in decimal, IPv6 in decimal behind a colon, so that the
\* texts of the two families never coincide
str_addr(a) == IF a.fam = 4 THEN DecStr(a.n) ELSE <<":">> \o DecStr(a.n)

\* the entry points that run extract_topology_bgp: on its own, or from main_bgp
BgpProgs == {"bgp", "main_bgp"}

\* sections 1 and 2 of both extractors: node loop, then link loop
\* (log holds the reports about links left out; these sections print the
\* numbers of nodes and of links only, and nothing about a link they pass over)
LoadTopology ==
    /\ pc = "start"
    /\ prog \in {"rip"} \cup BgpProgs
    /\ routers_list' = [j \in 1..Len(nodes_data) |-> nodes_data[j].name]
    /\ links' = ResolvedLinks(links_data)
    /\ current_net' = ip_base
    /\ k' = 1
    /\ pc' = "alloc"
    /\ UNCHANGED <<prog, err, log, nodes_data, links_data, ip_base, asn_base, subnet_gen,
                   blocks, interfaces_cfg, rip_networks, router_to_asn,
                   router_to_neighbors, ipv6_assignments, router_id, topology_data,
                   config_lines, topology_file, cfg_runs>>

----------------------------------------------------------------------------
(* RIP: the fixed-block allocator of extract_topology and cfg_generation *)

\* cfg_generation reads routers and links from topology.json as they are
LoadCfgTopology ==
    /\ pc = "start"
    /\ prog = "rip_cfg"
    /\ routers_list' = [j \in 1..Len(nodes_data) |-> nodes_data[j].name]
    /\ current_net' = ip_base
    /\ k' = 1
    /\ pc' = "alloc"
    /\ UNCHANGED <<prog, err, log, nodes_data, links_data, ip_base, asn_base, links,
                   subnet_gen, blocks, interfaces_cfg, rip_networks, router_to_asn,
                   router_to_neighbors, ipv6_assignments, router_id, topology_data,
                   config_lines, topology_file, cfg_runs>>

\* variant: endpoint a takes hosts[1], the address of endpoint b
RipHostASecond(net) == Addr(net.fam, hosts(net)[2])

\* the two addresses a link gets from a block: hosts[0], hosts[1]
RipHostA(net) == Addr(net.fam, hosts(net)[1])

RipHostB(net) == Addr(net.fam, hosts(net)[2])

\* variant: the advance stays in the family of the block, and fails at its end
RipNextNetSameFamily(net) ==
    IF net.addr + num_addresses(net) >= Pow2(max_prefixlen(net.fam)) THEN NoNet
    ELSE Net(net.fam, net.addr + num_addresses(net), net.prefixlen)

\* ip_network(int(network_address) + num_addresses).supernet(new_prefix=prefixlen)
RipNextNet(net) ==
    LET single == ip_network_int(net.addr + num_addresses(net))
    IN  IF single = NoNet THEN NoNet ELSE supernet(single, net.prefixlen)

\* interfaces_cfg after the two appends of one link
RipRecA(link, net) ==
    [name |-> link.a_iface, ip |-> RipHostA(net), mask |-> netmask(net)]

RipRecB(link, net) ==
    [name |-> link.b_iface, ip |-> RipHostB(net), mask |-> netmask(net)]

RipAppendIfaces(cfg, link, net) ==
    LET cfg1 == [cfg EXCEPT ![link.a] = Append(@, RipRecA(link, net))]
    IN  [cfg1 EXCEPT ![link.b] = Append(@, RipRecB(link, net))]

\* one iteration of the link loop
RipAllocLink ==
    /\ pc = "alloc"
    /\ prog \in {"rip", "rip_cfg"}
    /\ k <= Len(links)
    /\ IF ~HostsListable(current_net)
       THEN /\ pc' = "abort"
            /\ err' = "MemoryError"
            /\ UNCHANGED <<interfaces_cfg, rip_networks, current_net, blocks, k>>
       ELSE IF Len(hosts(current_net)) < 2
       THEN /\ pc' = "abort"
            /\ err' = "IndexError"
            /\ UNCHANGED <<interfaces_cfg, rip_networks, current_net, blocks, k>>
       ELSE /\ interfaces_cfg' = RipAppendIfaces(interfaces_cfg, links[k], current_net)
            /\ rip_networks' =
                   [n \in DOMAIN rip_networks |->
                       IF n \in {links[k].a, links[k].b}
                       THEN rip_networks[n] \cup {network_address(current_net)}
                       ELSE rip_networks[n]]
            /\ blocks' = Append(blocks, [net |-> current_net,
                                          a |-> RipRecA(links[k], current_net),
                                          b |-> RipRecB(links[k], current_net)])
            /\ IF RipNextNet(current_net) = NoNet
               THEN /\ pc' = "abort"
                    /\ err' = "ValueError"
                    /\ UNCHANGED <<current_net, k>>
               ELSE /\ current_net' = RipNextNet(current_net)
                    /\ k' = k + 1
                    /\ UNCHANGED <<pc, err>>
    /\ UNCHANGED <<prog, log, nodes_data, links_data, ip_base, asn_base, routers_list, links,
                   subnet_gen, router_to_asn, router_to_neighbors, ipv6_assignments,
                   router_id, topology_data,
                   config_lines, topology_file, cfg_runs>>

\* variant: the addresses sorted by their numeric value
RECURSIVE SortedAddrsNumeric(_)
SortedAddrsNumeric(S) ==
    IF S = {} THEN <<>>
    ELSE LET least == CHOOSE a \in S : \A b \in S \ {a} : a.n < b.n
         IN  <<least>> \o SortedAddrsNumeric(S \ {least})

\* the elements of a set of addresses as a list sorted by their text
RECURSIVE SortedAddrs(_)
SortedAddrs(S) ==
    IF S = {} THEN <<>>
    ELSE LET least == CHOOSE a \in S :
                         \A b \in S \ {a} : StrLess(str_addr(a), str_addr(b))
         IN  <<least>> \o SortedAddrs(S \ {least})

\* section 3b of extract_topology: one record per router, then the links
RipExport ==
    /\ pc = "alloc"
    /\ prog = "rip"
    /\ k > Len(links)
    /\ topology_data' =
           [routers |-> [j \in 1..Len(routers_list) |->
                            [name |-> routers_list[j],
                             interfaces |-> interfaces_cfg[routers_list[j]],
                             rip_networks |-> SortedAddrs(rip_networks[routers_list[j]])]],
            links |-> [j \in 1..Len(links) |->
                            [router_a |-> links[j].a, interface_a |-> links[j].a_iface,
                             router_b |-> links[j].b, interface_b |-> links[j].b_iface]]]
    /\ pc' = "done"
    /\ UNCHANGED <<prog, err, log, nodes_data, links_data, ip_base, asn_base, routers_list,
                   links, current_net, subnet_gen, blocks, interfaces_cfg, rip_networks,
                   router_to_asn, router_to_neighbors, ipv6_assignments, router_id, k,
                   config_lines, topology_file, cfg_runs>>

\* the per-router loop of cfg_generation: interfaces_cfg[router_name] and
\* rip_networks[router_name] are plain dict lookups, created only for link ends
RipCfgRender ==
    /\ pc = "alloc"
    /\ prog = "rip_cfg"
    /\ k > Len(links)
    /\ IF \E j \in 1..Len(routers_list) : interfaces_cfg[routers_list[j]] = <<>>
       THEN /\ pc' = "abort"
            /\ err' = "KeyError"
            /\ UNCHANGED topology_data
       ELSE /\ pc' = "done"
            /\ topology_data' =
                   [routers |-> [j \in 1..Len(routers_list) |->
                                    [name |-> routers_list[j],
                                     interfaces |-> interfaces_cfg[routers_list[j]],
                                     rip_networks |->
                                         SortedAddrs(rip_networks[routers_list[j]])]],
                    links |-> links]
            /\ UNCHANGED err
    /\ UNCHANGED <<prog, log, nodes_data, links_data, ip_base, asn_base, routers_list,
                   links, current_net, subnet_gen, blocks, interfaces_cfg, rip_networks,
                   router_to_asn, router_to_neighbors, ipv6_assignments, router_id, k,
                   config_lines, topology_file, cfg_runs>>

----------------------------------------------------------------------------
(* BGP: extract_topology_bgp *)

\* ip_a and ip_b of a link: IPv6Address(base + 1), IPv6Address(base + 2)
BgpHostA(net) == IPv6Address(net.addr + 1)

BgpHostB(net) == IPv6Address(net.addr + 2)

\* ip_network(f"{ip_address(base + num_addresses)}/{prefixlen}", strict=False)
BgpNextNet(net) ==
    LET n == net.addr + num_addresses(net)
    IN  IF FamilyOfInt(n) = 0 THEN NoNet
        ELSE ip_network_lax(Addr(FamilyOfInt(n), n), net.prefixlen)

\* interfaces_cfg after the two appends of one link
BgpRecA(link, net) ==
    [name |-> link.a_iface, ip |-> BgpHostA(net),
     prefix |-> net.prefixlen, link_net |-> network_address(net)]

BgpRecB(link, net) ==
    [name |-> link.b_iface, ip |-> BgpHostB(net),
     prefix |-> net.prefixlen, link_net |-> network_address(net)]

BgpAppendIfaces(cfg, link, net) ==
    LET cfg1 == [cfg EXCEPT ![link.a] = Append(@, BgpRecA(link, net))]
    IN  [cfg1 EXCEPT ![link.b] = Append(@, BgpRecB(link, net))]

\* one iteration of the addressing loop
BgpAllocLink ==
    /\ pc = "alloc"
    /\ prog \in BgpProgs
    /\ k <= Len(links)
    /\ IF BgpHostA(current_net).fam = 0 \/ BgpHostB(current_net).fam = 0
       THEN /\ pc' = "abort"
            /\ err' = "AddressValueError"
            /\ UNCHANGED <<interfaces_cfg, current_net, blocks, k>>
       ELSE /\ interfaces_cfg' = BgpAppendIfaces(interfaces_cfg, links[k], current_net)
            /\ blocks' = Append(blocks, [net |-> current_net,
                                          a |-> BgpRecA(links[k], current_net),
                                          b |-> BgpRecB(links[k], current_net)])
            /\ IF BgpNextNet(current_net) = NoNet
               THEN /\ pc' = "abort"
                    /\ err' = "ValueError"
                    /\ UNCHANGED <<current_net, k>>
               ELSE /\ current_net' = BgpNextNet(current_net)
                    /\ k' = k + 1
                    /\ UNCHANGED <<pc, err>>
    /\ UNCHANGED <<prog, log, nodes_data, links_data, ip_base, asn_base, routers_list, links,
                   subnet_gen, rip_networks, router_to_asn, router_to_neighbors,
                   ipv6_assignments, router_id, topology_data,
                   config_lines, topology_file, cfg_runs>>

\* variant: the loop enumerates routers_list as given, without sorting
AsnOfInputOrder(names, base, n) ==
    LET last == CHOOSE j \in 1..Len(names) :
                    /\ names[j] = n
                    /\ \A j2 \in (j + 1)..Len(names) : names[j2] # n
    IN  base + (last - 1) + 1

\* router_to_asn after the loop over enumerate(sorted(routers_list)): a name met
\* again keeps the later index
AsnOf(names, base, n) ==
    LET srt  == sorted(names)
        last == CHOOSE j \in 1..Len(srt) :
                    /\ srt[j] = n
                    /\ \A j2 \in (j + 1)..Len(srt) : srt[j2] # n
    IN  base + (last - 1) + 1

\* the ASN loop, entered when the addressing loop has run through
BgpAssignAsn ==
    /\ pc = "alloc"
    /\ prog \in BgpProgs
    /\ k > Len(links)
    /\ router_to_asn' = [n \in Range(routers_list) |-> AsnOf(routers_list, asn_base, n)]
    /\ k' = 1
    /\ pc' = "neighbors"
    /\ UNCHANGED <<prog, err, log, nodes_data, links_data, ip_base, asn_base, routers_list,
                   links, current_net, subnet_gen, blocks, interfaces_cfg, rip_networks,
                   router_to_neighbors, ipv6_assignments, router_id, topology_data,
                   config_lines, topology_file, cfg_runs>>

\* index of the first interface of lb on the network link_net, 0 when none
FirstOnNet(lb, link_net) ==
    IF \E j \in 1..Len(lb) : lb[j].link_net = link_net
    THEN CHOOSE j \in 1..Len(lb) :
             /\ lb[j].link_net = link_net
             /\ \A j2 \in 1..(j - 1) : lb[j2].link_net # link_net
    ELSE 0

\* the nested loops over interfaces_cfg[a] and interfaces_cfg[b] for one link,
\* from interface i of a onwards
RECURSIVE NeighborsForLink(_, _, _, _, _)
NeighborsForLink(nb, cfg, asn, link, i) ==
    IF i > Len(cfg[link.a]) THEN nb
    ELSE LET iface_a == cfg[link.a][i]
             j       == FirstOnNet(cfg[link.b], iface_a.link_net)
         IN  IF j = 0 THEN NeighborsForLink(nb, cfg, asn, link, i + 1)
             ELSE LET iface_b == cfg[link.b][j]
                      nb1 == [nb EXCEPT ![link.a] =
                                 Append(@, [name |-> link.b, asn |-> asn[link.b],
                                            ip |-> iface_b.ip])]
                      nb2 == [nb1 EXCEPT ![link.b] =
                                 Append(@, [name |-> link.a, asn |-> asn[link.a],
                                            ip |-> iface_a.ip])]
                  IN  NeighborsForLink(nb2, cfg, asn, link, i + 1)

\* one iteration of the neighbor loop
BgpNeighborLink ==
    /\ pc = "neighbors"
    /\ prog \in BgpProgs
    /\ k <= Len(links)
    /\ router_to_neighbors' =
           NeighborsForLink(router_to_neighbors, interfaces_cfg, router_to_asn, links[k], 1)
    /\ k' = k + 1
    /\ UNCHANGED <<prog, pc, err, log, nodes_data, links_data, ip_base, asn_base, routers_list,
                   links, current_net, subnet_gen, blocks, interfaces_cfg, rip_networks,
                   router_to_asn, ipv6_assignments, router_id, topology_data,
                   config_lines, topology_file, cfg_runs>>

\* section 5: one record per router in node order, then the links
BgpExport ==
    /\ pc = "neighbors"
    /\ prog \in BgpProgs
    /\ k > Len(links)
    /\ topology_data' =
           [ip_base |-> ip_base,
            asn_base |-> asn_base,
            routers |-> [j \in 1..Len(routers_list) |->
                            [name |-> routers_list[j],
                             asn |-> router_to_asn[routers_list[j]],
                             interfaces |-> interfaces_cfg[routers_list[j]],
                             neighbors |-> router_to_neighbors[routers_list[j]]]],
            links |-> links]
    /\ topology_file' = "fresh"
    /\ pc' = IF prog = "main_bgp" THEN "generate" ELSE "done"
    /\ UNCHANGED <<prog, err, log, nodes_data, links_data, ip_base, asn_base, routers_list,
                   links, current_net, subnet_gen, blocks, interfaces_cfg, rip_networks,
                   router_to_asn, router_to_neighbors, ipv6_assignments, router_id, k,
                   config_lines, cfg_runs>>

----------------------------------------------------------------------------
(* OSPFv3: generate_ipv6_addresses *)

\* ip_network(ipv6_base, strict=False): host bits are dropped
OspfBaseNetwork(base) == ip_network_lax(Addr(base.fam, base.addr), base.prefixlen)

\* variant: a generator that never ends, running on past the base network
NextSubnetEndless(base, j) ==
    LET w == max_prefixlen(base.fam)
    IN  IF base.prefixlen = w
        THEN [kind |-> "net", net |-> base]
        ELSE IF SubnetPrefix < base.prefixlen \/ SubnetPrefix > w
        THEN [kind |-> "error", net |-> NoNet]
        ELSE [kind |-> "net",
              net |-> Net(base.fam, (base.addr + j * Pow2(w - SubnetPrefix)) % Pow2(w),
                          SubnetPrefix)]

\* the j-th value (from 0) of base.subnets(new_prefix=SubnetPrefix):
\* a network, "stop" when the generator is exhausted, "error" for ValueError
NextSubnet(base, j) ==
    LET w == max_prefixlen(base.fam)
    IN  IF base.prefixlen = w
        THEN IF j = 0 THEN [kind |-> "net", net |-> base]
             ELSE [kind |-> "stop", net |-> NoNet]
        ELSE IF SubnetPrefix < base.prefixlen \/ SubnetPrefix > w
        THEN [kind |-> "error", net |-> NoNet]
        ELSE LET step == Pow2(w - SubnetPrefix)
                 start == base.addr + j * step
             IN  IF start <= broadcast_int(base)
                 THEN [kind |-> "net", net |-> Net(base.fam, start, SubnetPrefix)]
                 ELSE [kind |-> "stop", net |-> NoNet]

\* subnet.network_address + n: fam 0 stands for AddressValueError
AddrPlus(net, n) ==
    IF net.addr + n < Pow2(max_prefixlen(net.fam)) THEN Addr(net.fam, net.addr + n)
    ELSE Addr(0, 0)

OspfHostA(net) == AddrPlus(net, 1)

OspfHostB(net) == AddrPlus(net, 2)

\* the key under which an endpoint's assignment is stored
OspfKey(router, iface) == <<router, iface>>

\* ipv6_assignments after the two stores of one link
OspfValA(net) == [ip |-> OspfHostA(net), prefix |-> net.prefixlen]

OspfValB(net) == [ip |-> OspfHostB(net), prefix |-> net.prefixlen]

OspfStore(asg, link, net) ==
    LET asg1 == (OspfKey(link.a, link.a_iface) :> OspfValA(net)) @@ asg
    IN  (OspfKey(link.b, link.b_iface) :> OspfValB(net)) @@ asg1

\* lines 22-33: parse the base, create the generator
OspfStart ==
    /\ pc = "start"
    /\ prog = "ospf"
    /\ current_net' = OspfBaseNetwork(ip_base)
    /\ subnet_gen' = 0
    /\ routers_list' = [j \in 1..Len(nodes_data) |-> nodes_data[j].name]
    /\ k' = 1
    /\ pc' = "alloc"
    /\ UNCHANGED <<prog, err, log, nodes_data, links_data, ip_base, asn_base, links,
                   blocks, interfaces_cfg, rip_networks, router_to_asn,
                   router_to_neighbors, ipv6_assignments, router_id, topology_data,
                   config_lines, topology_file, cfg_runs>>

\* one iteration of the link loop; running out of subnets prints and breaks
OspfLink ==
    /\ pc = "alloc"
    /\ prog = "ospf"
    /\ k <= Len(links)
    /\ LET nxt == NextSubnet(current_net, subnet_gen)
       IN  IF nxt.kind = "error"
           THEN /\ pc' = "abort"
                /\ err' = "ValueError"
                /\ UNCHANGED <<log, subnet_gen, ipv6_assignments, blocks, k>>
           ELSE IF nxt.kind = "stop"
           THEN /\ log' = Append(log, <<"Ran out of IPv6 addresses at link", k - 1>>)
                /\ pc' = "configs"
                /\ k' = 1
                /\ UNCHANGED <<err, subnet_gen, ipv6_assignments, blocks>>
           ELSE IF OspfHostA(nxt.net).fam = 0 \/ OspfHostB(nxt.net).fam = 0
           THEN /\ pc' = "abort"
                /\ err' = "AddressValueError"
                /\ subnet_gen' = subnet_gen + 1
                /\ UNCHANGED <<log, ipv6_assignments, blocks, k>>
           ELSE /\ ipv6_assignments' = OspfStore(ipv6_assignments, links[k], nxt.net)
                /\ blocks' = Append(blocks, [net |-> nxt.net, a |-> OspfValA(nxt.net),
                                              b |-> OspfValB(nxt.net)])
                /\ subnet_gen' = subnet_gen + 1
                /\ k' = k + 1
                /\ UNCHANGED <<pc, err, log>>
    /\ UNCHANGED <<prog, nodes_data, links_data, ip_base, asn_base, routers_list, links,
                   current_net, interfaces_cfg, rip_networks, router_to_asn,
                   router_to_neighbors, router_id, topology_data,
                   config_lines, topology_file, cfg_runs>>

\* the loop ran through every link: return ipv6_assignments
OspfReturn ==
    /\ pc = "alloc"
    /\ prog = "ospf"
    /\ k > Len(links)
    /\ pc' = "configs"
    /\ k' = 1
    /\ UNCHANGED <<prog, err, log, nodes_data, links_data, ip_base, asn_base,
                   routers_list, links, current_net, subnet_gen, blocks, interfaces_cfg,
                   rip_networks, router_to_asn, router_to_neighbors, ipv6_assignments,
                   router_id, topology_data,
                   config_lines, topology_file, cfg_runs>>

----------------------------------------------------------------------------
(* Router ids *)

\* int(text) for a text of decimal digits
RECURSIVE IntOf(_)
IntOf(q) ==
    IF q = <<>> THEN 0
    ELSE 10 * IntOf(SubSeq(q, 1, Len(q) - 1)) + (Ord(q[Len(q)]) - Ord("0"))

\* the longest prefix of q made of digits
RECURSIVE DigitPrefix(_)
DigitPrefix(q) ==
    IF q = <<>> \/ Head(q) \notin Digits THEN <<>>
    ELSE <<Head(q)>> \o DigitPrefix(Tail(q))

\* re.search(r"\d+", name).group(): the leftmost run of digits, <<>> when no match
RECURSIVE FirstDigitRun(_)
FirstDigitRun(name) ==
    IF name = <<>> THEN <<>>
    ELSE IF Head(name) \in Digits THEN DigitPrefix(name)
    ELSE FirstDigitRun(Tail(name))

\* f"{x}.{x}.{x}.{x}"
Dotted(x) == x \o <<".">> \o x \o <<".">> \o x \o <<".">> \o x

\* cfg_generation_bgp.generate_router_id
generate_router_id(router_name) ==
    IF FirstDigitRun(router_name) # <<>>
    THEN Dotted(DecStr(IntOf(FirstDigitRun(router_name))))
    ELSE Dotted(<<"1">>)

\* ''.join(filter(str.isdigit, name))
RECURSIVE FilterDigits(_)
FilterDigits(name) ==
    IF name = <<>> THEN <<>>
    ELSE (IF Head(name) \in Digits THEN <<Head(name)>> ELSE <<>>) \o FilterDigits(Tail(name))

\* the router id computed in create_ospfv3_config
ospf_router_id(router_name) ==
    IF FilterDigits(router_name) # <<>>
    THEN Dotted(FilterDigits(router_name))
    ELSE Dotted(<<"1">>)

\* cfg_generation_bgp: topology_bgp.json is read, then one pass of the router loop
BgpCfgRouter ==
    /\ prog = "bgp_cfg"
    /\ pc = "start"
    /\ k <= Len(nodes_data)
    /\ router_id' = (nodes_data[k].name :> generate_router_id(nodes_data[k].name)) @@ router_id
    /\ k' = k + 1
    /\ UNCHANGED <<prog, pc, err, log, nodes_data, links_data, ip_base, asn_base,
                   routers_list, links, current_net, subnet_gen, blocks, interfaces_cfg,
                   rip_networks, router_to_asn, router_to_neighbors, ipv6_assignments,
                   topology_data,
                   config_lines, topology_file, cfg_runs>>

BgpCfgDone ==
    /\ prog = "bgp_cfg"
    /\ pc = "start"
    /\ k > Len(nodes_data)
    /\ pc' = "done"
    /\ UNCHANGED <<prog, err, log, nodes_data, links_data, ip_base, asn_base,
                   routers_list, links, current_net, subnet_gen, blocks, interfaces_cfg,
                   rip_networks, router_to_asn, router_to_neighbors, ipv6_assignments,
                   router_id, topology_data, k,
                   config_lines, topology_file, cfg_runs>>

\* a line of a configuration: its fixed text and what is formatted into it
Line(text, arg) == [text |-> text, arg |-> arg]

\* section 3 of create_ospfv3_config for one interface
InterfaceStanza(router_name, interface_name, asg) ==
    <<Line("interface", interface_name)>>
        \o (IF OspfKey(router_name, interface_name) \in DOMAIN asg
            THEN <<Line(" ipv6 address", asg[OspfKey(router_name, interface_name)]),
                   Line(" ipv6 enable", <<>>),
                   Line(" no shutdown", <<>>)>>
            ELSE <<Line(" shutdown", <<>>)>>)
        \o <<Line("!", <<>>)>>

\* section 5 of create_ospfv3_config for one interface
OspfStanza(router_name, interface_name, asg) ==
    IF OspfKey(router_name, interface_name) \in DOMAIN asg
    THEN <<Line("interface", interface_name), Line(" ipv6 ospf 1 area 0", <<>>),
           Line("!", <<>>)>>
    ELSE <<>>

\* the stanzas of the interfaces from the i-th on, in list order
RECURSIVE InterfaceSection(_, _, _, _)
InterfaceSection(router_name, interfaces, asg, i) ==
    IF i > Len(interfaces) THEN <<>>
    ELSE InterfaceStanza(router_name, interfaces[i].name, asg)
             \o InterfaceSection(router_name, interfaces, asg, i + 1)

RECURSIVE OspfSection(_, _, _, _)
OspfSection(router_name, interfaces, asg, i) ==
    IF i > Len(interfaces) THEN <<>>
    ELSE OspfStanza(router_name, interfaces[i].name, asg)
             \o OspfSection(router_name, interfaces, asg, i + 1)

\* create_ospfv3_config: the lines of the configuration of one router
create_ospfv3_config(router_name, interfaces, asg) ==
    <<Line("hostname", router_name), Line("!", <<>>),
      Line("ipv6 unicast-routing", <<>>), Line("!", <<>>),
      Line("! Interface configurations", <<>>)>>
        \o InterfaceSection(router_name, interfaces, asg, 1)
        \o <<Line("! OSPFv3 configuration", <<>>), Line("ipv6 router ospf 1", <<>>),
             Line(" router-id", ospf_router_id(router_name)), Line("!", <<>>),
             Line("! Enable OSPFv3 on interfaces", <<>>)>>
        \o OspfSection(router_name, interfaces, asg, 1)
        \o <<Line("end", <<>>), Line("write memory", <<>>)>>

\* generate_all_configs: after generate_ipv6_addresses, one pass of the router loop
OspfConfigRouter ==
    /\ prog = "ospf"
    /\ pc = "configs"
    /\ k <= Len(nodes_data)
    /\ router_id' = (nodes_data[k].name :> ospf_router_id(nodes_data[k].name)) @@ router_id
    /\ config_lines' =
           (nodes_data[k].name :>
                create_ospfv3_config(nodes_data[k].name, nodes_data[k].interfaces,
                                     ipv6_assignments)) @@ config_lines
    /\ k' = k + 1
    /\ UNCHANGED <<prog, pc, err, log, nodes_data, links_data, ip_base, asn_base,
                   routers_list, links, current_net, subnet_gen, blocks, interfaces_cfg,
                   rip_networks, router_to_asn, router_to_neighbors, ipv6_assignments,
                   topology_data,
                   topology_file, cfg_runs>>

OspfDone ==
    /\ prog = "ospf"
    /\ pc = "configs"
    /\ k > Len(nodes_data)
    /\ pc' = "done"
    /\ UNCHANGED <<prog, err, log, nodes_data, links_data, ip_base, asn_base,
                   routers_list, links, current_net, subnet_gen, blocks, interfaces_cfg,
                   rip_networks, router_to_asn, router_to_neighbors, ipv6_assignments,
                   router_id, topology_data, k,
                   config_lines, topology_file, cfg_runs>>

----------------------------------------------------------------------------
(* main_bgp *)

\* main_bgp.py line 7: importing cfg_generation_bgp runs that module, whose last
\* line calls cfg_generation_bgp("topology_bgp.json") on whatever file the
\* working directory holds; open() raises FileNotFoundError when there is none.
\* The configurations it writes from a file of an earlier run are not kept in
\* the state: cfg_runs records that the execution took place and what it read.
MainImport ==
    /\ prog = "main_bgp"
    /\ pc = "import"
    /\ cfg_runs' = Append(cfg_runs, topology_file)
    /\ IF topology_file = "absent"
       THEN pc' = "abort" /\ err' = "FileNotFoundError"
       ELSE pc' = "start" /\ UNCHANGED err
    /\ UNCHANGED <<prog, log, nodes_data, links_data, ip_base, asn_base, routers_list,
                   links, current_net, subnet_gen, blocks, interfaces_cfg, rip_networks,
                   router_to_asn, router_to_neighbors, ipv6_assignments, router_id,
                   topology_data, config_lines, topology_file, k>>

\* main_bgp.py line 31: cfg_generation_bgp on the file extract_topology_bgp wrote
\* (main_bgp run from its own directory), one configuration per router
MainGenerate ==
    /\ prog = "main_bgp"
    /\ pc = "generate"
    /\ cfg_runs' = Append(cfg_runs, topology_file)
    /\ router_id' = [n \in {topology_data.routers[j].name :
                               j \in 1..Len(topology_data.routers)} |->
                        generate_router_id(n)]
    /\ pc' = "done"
    /\ UNCHANGED <<prog, err, log, nodes_data, links_data, ip_base, asn_base, routers_list,
                   links, current_net, subnet_gen, blocks, interfaces_cfg, rip_networks,
                   router_to_asn, router_to_neighbors, ipv6_assignments,
                   topology_data, config_lines, topology_file, k>>

----------------------------------------------------------------------------
(* Inputs *)

NoData == <<>>

Node(name, id) == [name |-> name, node_id |-> id]

\* the three routers of the topology runs, and a node id that names no router
TopoNodes == <<Node(R1, "n1"), Node(R2, "n2"), Node(R3, "n3")>>

RawIds == {"n1", "n2", "n3", "nx"}

\* raw link number j: ports are used once per node, as GNS3 wires them
RawLink(ida, idb, j) ==
    [a |-> [node_id |-> ida, adapter_number |-> 0, port_number |-> j],
     b |-> [node_id |-> idb, adapter_number |-> 1, port_number |-> j]]

\* every raw link list of length n
RawLinkLists(n) ==
    {[j \in 1..n |-> RawLink(p[j][1], p[j][2], j)] : p \in [1..n -> RawIds \X RawIds]}

\* a chain R1-R2, R2-R3, R3-R1, ... of n links
ChainIds == <<"n1", "n2", "n3">>

ChainLinks(n) ==
    [j \in 1..n |-> RawLink(ChainIds[((j - 1) % 3) + 1], ChainIds[(j % 3) + 1], j)]

\* the aligned networks of a family with the given prefix length whose block is
\* the first, the second, or one of the last two of the address space
NetsAt(fam, p) ==
    LET count == Pow2(p)
        size  == Pow2(max_prefixlen(fam) - p)
    IN  {Net(fam, i * size, p) : i \in {0, 1, count - 2, count - 1} \cap 0..(count - 1)}

V4Nets == UNION {NetsAt(4, p) : p \in 0..V4Bits}

V6Prefixes == {0, V4Bits, 2 * V4Bits, V6Bits - V4Bits, V6Bits - V4Bits + 1,
               V6Bits - 2, V6Bits - 1, V6Bits}

\* the IPv6 blocks on either side of the first integer that ip_address reads
\* as an IPv6 address
V6BoundaryNets ==
    {Net(6, Pow2(V4Bits) - Pow2(V6Bits - p), p) : p \in V6Prefixes \cap (V6Bits - V4Bits)..V6Bits}
        \cup {Net(6, Pow2(V4Bits), p) : p \in V6Prefixes \cap (V6Bits - V4Bits)..V6Bits}

V6Nets == UNION {NetsAt(6, p) : p \in V6Prefixes} \cup V6BoundaryNets

\* the links of topology.json for cfg_generation: the chain, by name
ChainNames == <<R1, R2, R3>>

CfgChainLinks(n) ==
    [j \in 1..n |-> [a |-> ChainNames[((j - 1) % 3) + 1],
                     a_iface |-> get_interface_name(0, j),
                     b |-> ChainNames[(j % 3) + 1],
                     b_iface |-> get_interface_name(1, j)]]

\* OSPF topology.json: routers with their interfaces, links by name
OspfIfaces == {<<"GigabitEthernet", 1, 0>>, <<"GigabitEthernet", 2, 0>>}

OspfEnds == {R1, R2} \X OspfIfaces

\* the "interfaces" list of a router of the OSPF topology.json
OspfIfaceList ==
    <<[name |-> <<"GigabitEthernet", 1, 0>>], [name |-> <<"GigabitEthernet", 2, 0>>]>>

\* the interfaces a router of the chain topology lists: those chain links use
ChainIfaceList ==
    [j \in 1..(2 * MaxChain) |->
        [name |-> IF j <= MaxChain THEN get_interface_name(0, j)
                  ELSE get_interface_name(1, j - MaxChain)]]

\* the router records of topology.json, each with its interface list
WithInterfaces(nodes, ifaces) ==
    [j \in 1..Len(nodes) |->
        [name |-> nodes[j].name, node_id |-> nodes[j].node_id, interfaces |-> ifaces]]

OspfLinkLists(n) ==
    {[j \in 1..n |-> [a |-> p[j][1][1], a_iface |-> p[j][1][2],
                      b |-> p[j][2][1], b_iface |-> p[j][2][2]]] :
        p \in [1..n -> OspfEnds \X OspfEnds]}

\* base networks of the OSPF runs: around the subnet prefix length, the longest
\* prefixes, and a base written with host bits set
OspfPrefixes == {0, SubnetPrefix - 2, SubnetPrefix - 1, SubnetPrefix, SubnetPrefix + 1,
                 V6Bits - 1, V6Bits}

OspfNets ==
    UNION {NetsAt(6, p) : p \in OspfPrefixes}
        \cup {Net(6, Pow2(V6Bits - SubnetPrefix) + 1, SubnetPrefix - 1)}
        \cup NetsAt(4, V4Bits) \cup NetsAt(4, V4Bits - 1)

\* every list of distinct names from the pool
NamePool == {R1, R2, R3, R10}

RECURSIVE DistinctLists(_)
DistinctLists(S) ==
    {<<>>} \cup UNION {{<<x>> \o q : q \in DistinctLists(S \ {x})} : x \in S}

\* every non-empty text of at most n characters over the given characters
RECURSIVE Texts(_, _)
Texts(chars, n) ==
    IF n = 0 THEN {}
    ELSE {<<c>> : c \in chars} \cup {<<c>> \o q : c \in chars, q \in Texts(chars, n - 1)}

NameChars == {"R", "0", "1"}

NodesOf(names) == [j \in 1..Len(names) |-> Node(names[j], names[j])]

\* asn_base as main_bgp passes it
DefaultAsnBase == 65000

RipTopoNets == {Net(4, 0, V4Bits - 2), Net(4, 2, V4Bits - 1)}

BgpTopoNets ==
    {Net(6, Pow2(V6Bits - SubnetPrefix), SubnetPrefix)}
        \cup {Net(6, 4 * Pow2(V4Bits), p) : p \in {V6Bits - 2, V6Bits - 1, V6Bits}}

OspfTopoNets ==
    {Net(6, 0, SubnetPrefix), Net(6, 0, SubnetPrefix - 1), Net(6, 0, SubnetPrefix - 2)}

\* the state in which an entry point starts on the given input
InitFile(p, at, nodes, raw, lnks, base, asn, file) ==
    /\ prog = p
    /\ pc = at
    /\ err = ""
    /\ log = <<>>
    /\ nodes_data = nodes
    /\ links_data = raw
    /\ ip_base = base
    /\ asn_base = asn
    /\ routers_list = <<>>
    /\ links = lnks
    /\ current_net = NoNet
    /\ subnet_gen = 0
    /\ blocks = <<>>
    /\ interfaces_cfg = [n \in {nodes[j].name : j \in 1..Len(nodes)} |-> <<>>]
    /\ rip_networks = [n \in {nodes[j].name : j \in 1..Len(nodes)} |-> {}]
    /\ router_to_asn = <<>>
    /\ router_to_neighbors = [n \in {nodes[j].name : j \in 1..Len(nodes)} |-> <<>>]
    /\ ipv6_assignments = <<>>
    /\ router_id = <<>>
    /\ topology_data = NoData
    /\ config_lines = <<>>
    /\ topology_file = file
    /\ cfg_runs = <<>>
    /\ k = 1

\* the same, for the entry points that start at their first statement and do not
\* read topology_bgp.json before writing it
InitWith(p, nodes, raw, lnks, base, asn) ==
    InitFile(p, "start", nodes, raw, lnks, base, asn, "absent")

\* three routers, a usual base network, every raw link list up to MaxLinks
InitTopo ==
    \/ \E n \in 0..MaxLinks : \E raw \in RawLinkLists(n) : \E base \in RipTopoNets :
           InitWith("rip", TopoNodes, raw, <<>>, base, DefaultAsnBase)
    \/ \E n \in 0..MaxLinks : \E raw \in RawLinkLists(n) : \E base \in BgpTopoNets :
           InitWith("bgp", TopoNodes, raw, <<>>, base, DefaultAsnBase)
    \/ \E n \in 0..MaxLinks : \E lnks \in OspfLinkLists(n) : \E base \in OspfTopoNets :
           InitWith("ospf", WithInterfaces(<<Node(R1, "n1"), Node(R2, "n2")>>, OspfIfaceList),
                    <<>>, lnks, base, DefaultAsnBase)

\* a chain of links, every base network
InitAddr ==
    \/ \E n \in 0..MaxChain : \E base \in V4Nets \cup V6Nets : \E p \in {"rip", "bgp"} :
           InitWith(p, TopoNodes, ChainLinks(n), <<>>, base, DefaultAsnBase)
    \/ \E n \in 0..MaxChain : \E base \in V4Nets \cup V6Nets :
           InitWith("rip_cfg", TopoNodes, <<>>, CfgChainLinks(n), base, DefaultAsnBase)
    \/ \E n \in 0..MaxChain : \E base \in OspfNets :
           InitWith("ospf", WithInterfaces(TopoNodes, ChainIfaceList), <<>>,
                    CfgChainLinks(n), base, DefaultAsnBase)

\* no link, every node list over the name pool
InitAsn ==
    \E names \in DistinctLists(NamePool) : \E asn \in {DefaultAsnBase, 100} :
        InitWith("bgp", NodesOf(names), <<>>, <<>>,
                 Net(6, Pow2(V6Bits - SubnetPrefix), SubnetPrefix), asn)

\* two routers with any two distinct names, rendered by either generator
InitRid ==
    \E n1 \in Texts(NameChars, MaxNameLen) : \E n2 \in Texts(NameChars, MaxNameLen) \ {n1} :
        \E p \in {"bgp_cfg", "ospf"} :
            InitWith(p, WithInterfaces(NodesOf(<<n1, n2>>), OspfIfaceList), <<>>, <<>>,
                     Net(6, 0, SubnetPrefix), DefaultAsnBase)

\* main_bgp with its fixed base network and asn_base, on a chain of links, in a
\* directory that holds a topology_bgp.json of an earlier run or none
InitMain ==
    \E n \in 0..MaxChain : \E file \in {"absent", "stale"} :
        InitFile("main_bgp", "import", TopoNodes, ChainLinks(n), <<>>,
                 Net(6, Pow2(V6Bits - SubnetPrefix), SubnetPrefix), DefaultAsnBase, file)

Init == InitTopo \/ InitAddr \/ InitAsn \/ InitRid \/ InitMain

Next ==
    \/ LoadTopology
    \/ LoadCfgTopology
    \/ RipAllocLink
    \/ RipExport
    \/ RipCfgRender
    \/ BgpAllocLink
    \/ BgpAssignAsn
    \/ BgpNeighborLink
    \/ BgpExport
    \/ OspfStart
    \/ OspfLink
    \/ OspfReturn
    \/ OspfConfigRouter
    \/ OspfDone
    \/ BgpCfgRouter
    \/ BgpCfgDone
    \/ MainImport
    \/ MainGenerate

Spec == Init /\ [][Next]_vars

----------------------------------------------------------------------------
(* Properties *)

FixedBlockProgs == {"rip", "rip_cfg", "bgp"}

\* two networks share no address, read as ranges of integers
DisjointNets(n1, n2) == broadcast_int(n1) < n2.addr \/ broadcast_int(n2) < n1.addr

\* C1: in the fixed-block allocators (RIP extract_topology and cfg_generation,
\* BGP extract_topology_bgp) the blocks given to the links processed so far all
\* have the base network's prefix length, each starts where the previous one
\* ends (so the bases increase strictly in link order), and they are pairwise
\* disjoint.
C1_BlocksDisjointIncreasing ==
    prog \in FixedBlockProgs =>
        /\ \A i \in 1..Len(blocks) : blocks[i].net.prefixlen = ip_base.prefixlen
        /\ \A i \in 1..(Len(blocks) - 1) :
               /\ blocks[i + 1].net.addr = blocks[i].net.addr + num_addresses(blocks[i].net)
               /\ blocks[i + 1].net.addr > blocks[i].net.addr
        /\ \A i, j \in 1..Len(blocks) : i < j => DisjointNets(blocks[i].net, blocks[j].net)

\* the mask or prefix length a written record carries is the block's
CarriesBlockLength(rec, net) ==
    IF prog \in {"rip", "rip_cfg"} THEN rec.mask = netmask(net)
    ELSE rec.prefix = net.prefixlen

\* C2: in every allocator (RIP, BGP, OSPF) the two records written for a link
\* carry two distinct addresses, both inside the block of that link and in no
\* other link's block, and both carry that block's mask or prefix length.
C2_EndpointsInsideOwnBlock ==
    \A i \in 1..Len(blocks) :
        /\ blocks[i].a.ip # blocks[i].b.ip
        /\ InNet(blocks[i].a.ip, blocks[i].net)
        /\ InNet(blocks[i].b.ip, blocks[i].net)
        /\ CarriesBlockLength(blocks[i].a, blocks[i].net)
        /\ CarriesBlockLength(blocks[i].b, blocks[i].net)
        /\ \A j \in 1..Len(blocks) :
               j # i => /\ ~InNet(blocks[i].a.ip, blocks[j].net)
                        /\ ~InNet(blocks[i].b.ip, blocks[j].net)

\* the address written for router n on link i, n being an end of that link and
\* the other end being another router
EndpointIp(i, n) == IF links[i].a = n THEN blocks[i].a.ip ELSE blocks[i].b.ip

\* links joining the routers x and y, in either direction
SharedLinks(x, y) ==
    {i \in 1..Len(links) : {links[i].a, links[i].b} = {x, y}}

\* x lists y as a neighbor with y's ASN and the address of y's end of a shared link
ListsPeer(x, y) ==
    \E r \in Range(router_to_neighbors[x]) :
        /\ r.name = y
        /\ r.asn = router_to_asn[y]
        /\ \E i \in SharedLinks(x, y) : r.ip = EndpointIp(i, y)

\* C3: once extract_topology_bgp has processed the links, for every link (A,B)
\* with A # B, A lists B with B's ASN and the address of B's end of a link
\* shared with A, B lists A likewise, and no neighbor record that names another
\* router holds an address assigned to the router owning the record.
C3_NeighborRecordsSymmetric ==
    (prog = "bgp" /\ pc = "done") =>
        /\ \A i \in 1..Len(links) :
               links[i].a # links[i].b =>
                   /\ ListsPeer(links[i].a, links[i].b)
                   /\ ListsPeer(links[i].b, links[i].a)
        /\ \A n \in DOMAIN router_to_neighbors :
               \A r \in Range(router_to_neighbors[n]) :
                   r.name # n =>
                       \A f \in Range(interfaces_cfg[n]) : r.ip # f.ip

\* the number of link ends router n has
EndpointCount(n) ==
    Cardinality({i \in 1..Len(links) : links[i].a = n})
        + Cardinality({i \in 1..Len(links) : links[i].b = n})

\* C4: once extract_topology_bgp has processed the links, every router's
\* neighbor list is as long as the number of link ends the router has: each
\* link has contributed two records, one on each of its routers.
C4_TwoNeighborRecordsPerLink ==
    (prog = "bgp" /\ pc = "done") =>
        \A n \in DOMAIN router_to_neighbors :
            Len(router_to_neighbors[n]) = EndpointCount(n)

\* every ordering of the elements of q
Orderings(q) == {p \in DistinctLists(Range(q)) : Len(p) = Len(q)}

\* C5: once extract_topology_bgp has assigned the ASNs, router_to_asn maps the
\* set of router names one-to-one onto asn_base+1 .. asn_base+len(routers), a
\* name that has i names lexicographically before it gets asn_base+i+1, and
\* every permutation of the node list gives the same mapping.
C5_AsnBijectionBySortedName ==
    (prog = "bgp" /\ pc \in {"neighbors", "done"}) =>
        /\ DOMAIN router_to_asn = Range(routers_list)
        /\ \A n \in Range(routers_list) :
               router_to_asn[n] =
                   asn_base + Cardinality({m \in Range(routers_list) : StrLess(m, n)}) + 1
        /\ {router_to_asn[n] : n \in Range(routers_list)} =
               (asn_base + 1)..(asn_base + Len(routers_list))
        /\ \A n1, n2 \in Range(routers_list) :
               n1 # n2 => router_to_asn[n1] # router_to_asn[n2]
        /\ \A q \in Orderings(routers_list) :
               \A n \in Range(routers_list) : AsnOf(q, asn_base, n) = router_to_asn[n]

\* the ASNs are assigned from a node list given out of order, with a name whose
\* lexicographic and numeric positions differ
C5_Witness ==
    /\ prog = "bgp"
    /\ pc = "done"
    /\ routers_list = <<R2, R10, R3, R1>>
    /\ router_to_asn[R10] = asn_base + 2
    /\ router_to_asn[R2] = asn_base + 3

\* the maximal runs of decimal digits of a name
MaximalDigitRuns(name) ==
    {SubSeq(name, i, j) : i \in 1..Len(name), j \in 1..Len(name)} \cap
    {SubSeq(name, i, j) : <<i, j>> \in
        {ij \in (1..Len(name)) \X (1..Len(name)) :
            /\ ij[1] <= ij[2]
            /\ \A x \in ij[1]..ij[2] : name[x] \in Digits
            /\ (ij[1] = 1 \/ name[ij[1] - 1] \notin Digits)
            /\ (ij[2] = Len(name) \/ name[ij[2] + 1] \notin Digits)}}

\* n.n.n.n for the numeric value n of a maximal digit run, 1.1.1.1 without digit
IsDigitRunQuad(name, rid) ==
    IF MaximalDigitRuns(name) = {} THEN rid = Dotted(<<"1">>)
    ELSE \E run \in MaximalDigitRuns(name) : rid = Dotted(DecStr(IntOf(run)))

\* C6: the router id either generator has derived for a name is n.n.n.n with n
\* the numeric value of a maximal run of digits of the name, or 1.1.1.1 when
\* the name has no digit, and the BGP generator and the OSPF generator derive
\* the same router id from the same name.
C6_RouterIdFromDigitRun ==
    \A n \in DOMAIN router_id :
        /\ IsDigitRunQuad(n, router_id[n])
        /\ generate_router_id(n) = ospf_router_id(n)

\* C7: within one run, routers with distinct names have distinct router ids,
\* and distinct ASNs.
C7_RouterIdsDistinct ==
    /\ \A n1, n2 \in DOMAIN router_id : n1 # n2 => router_id[n1] # router_id[n2]
    /\ \A n1, n2 \in DOMAIN router_to_asn : n1 # n2 => router_to_asn[n1] # router_to_asn[n2]

\* the number of subnets of the subnet prefix length inside the base network
SubnetsAvailable == Pow2(SubnetPrefix - ip_base.prefixlen)

Min(x, y) == IF x <= y THEN x ELSE y

\* the i-th subnet (from 1) of the base network in increasing address order
IthSubnet(i) ==
    LET size == Pow2(V6Bits - ip_base.prefixlen)
        base == ip_base.addr - (ip_base.addr % size)
    IN  Net(6, base + (i - 1) * Pow2(V6Bits - SubnetPrefix), SubnetPrefix)

\* the links among the first m that write the key
WritersOf(key, m) ==
    {i \in 1..m : key \in {OspfKey(links[i].a, links[i].a_iface),
                           OspfKey(links[i].b, links[i].b_iface)}}

\* what the last of the first m links writing the key leaves under it
LastWritten(key, m) ==
    LET i == CHOOSE x \in WritersOf(key, m) : \A y \in WritersOf(key, m) : y <= x
    IN  IF key = OspfKey(links[i].b, links[i].b_iface)
        THEN [ip |-> Addr(6, IthSubnet(i).addr + 2), prefix |-> SubnetPrefix]
        ELSE [ip |-> Addr(6, IthSubnet(i).addr + 1), prefix |-> SubnetPrefix]

\* C8: generate_ipv6_addresses on an IPv6 base network that holds S >= 1
\* subnets of the subnet prefix length, with N links: when it has returned,
\* exactly the first min(N,S) links have received addresses, link i from the
\* i-th subnet in increasing address order (base+1 for end a, base+2 for end
\* b); when N > S it has stopped at link S, reported the exhaustion once,
\* written nothing for the links from S on, and returned the assignments made
\* instead of aborting.
C8_SequentialAllocatorStopsAtExhaustion ==
    (/\ prog = "ospf"
     /\ pc \in {"configs", "done"}
     /\ ip_base.fam = 6
     /\ ip_base.prefixlen <= SubnetPrefix) =>
        LET M == Min(Len(links), SubnetsAvailable)
        IN  /\ err = ""
            /\ Len(blocks) = M
            /\ \A i \in 1..M :
                   /\ blocks[i].net = IthSubnet(i)
                   /\ blocks[i].a = [ip |-> Addr(6, IthSubnet(i).addr + 1),
                                     prefix |-> SubnetPrefix]
                   /\ blocks[i].b = [ip |-> Addr(6, IthSubnet(i).addr + 2),
                                     prefix |-> SubnetPrefix]
            /\ \A i \in 1..(M - 1) : blocks[i].net.addr < blocks[i + 1].net.addr
            /\ DOMAIN ipv6_assignments =
                   {OspfKey(links[i].a, links[i].a_iface) : i \in 1..M}
                       \cup {OspfKey(links[i].b, links[i].b_iface) : i \in 1..M}
            /\ \A key \in DOMAIN ipv6_assignments :
                   ipv6_assignments[key] = LastWritten(key, M)
            /\ log = IF Len(links) > SubnetsAvailable
                     THEN <<<<"Ran out of IPv6 addresses at link", SubnetsAvailable>>>>
                     ELSE <<>>

\* three links on a base network of two subnets: the first two links have their
\* addresses, the third has none and the exhaustion is reported at link 2
C8_Witness ==
    /\ prog = "ospf"
    /\ pc = "done"
    /\ ip_base.fam = 6
    /\ SubnetsAvailable = 2
    /\ Len(links) = 3
    /\ Len(blocks) = 2
    /\ log = <<<<"Ran out of IPv6 addresses at link", 2>>>>
    /\ OspfKey(links[3].a, links[3].a_iface) \notin DOMAIN ipv6_assignments
    /\ OspfKey(links[2].b, links[2].b_iface) \in DOMAIN ipv6_assignments

\* C9: the address map of generate_ipv6_addresses holds two entries for every
\* link that has been allocated, and each allocated link's two keys still hold
\* the addresses written for that link.
C9_NoKeyWrittenTwice ==
    prog = "ospf" =>
        /\ Cardinality(DOMAIN ipv6_assignments) = 2 * Len(blocks)
        /\ \A i \in 1..Len(blocks) :
               /\ OspfKey(links[i].a, links[i].a_iface) \in DOMAIN ipv6_assignments
               /\ OspfKey(links[i].b, links[i].b_iface) \in DOMAIN ipv6_assignments
               /\ ipv6_assignments[OspfKey(links[i].a, links[i].a_iface)] = blocks[i].a
               /\ ipv6_assignments[OspfKey(links[i].b, links[i].b_iface)] = blocks[i].b

\* the two lowest usable host addresses of a block, in increasing order
LowestTwoHosts(net) ==
    LET usable == Range(hosts(net))
        first  == CHOOSE x \in usable : \A y \in usable : x <= y
        second == CHOOSE x \in usable \ {first} : \A y \in usable \ {first} : x <= y
    IN  <<Addr(net.fam, first), Addr(net.fam, second)>>

\* the links R1-R2 then R2-R3
IsChainOfTwo ==
    /\ Len(links) = 2
    /\ <<links[1].a, links[1].b>> = <<R1, R2>>
    /\ <<links[2].a, links[2].b>> = <<R2, R3>>

\* the base network of four addresses at the bottom of the IPv4 space
FourBlock(i) == Net(4, 4 * (i - 1), V4Bits - 2)

\* C10: in the RIP allocators every processed link's end a holds the lowest
\* usable host address of the link's block and end b the next one, the blocks
\* being taken in link order; with R1,R2,R3, links R1-R2 then R2-R3 and the
\* four-address base network at 0, the first block is at 0 with R1 = 1 and
\* R2 = 2 and the second at 4 with R2 = 5 and R3 = 6.
C10_LowestHostToEndpointA ==
    prog \in {"rip", "rip_cfg"} =>
        /\ \A i \in 1..Len(blocks) :
               /\ blocks[i].a.ip = LowestTwoHosts(blocks[i].net)[1]
               /\ blocks[i].b.ip = LowestTwoHosts(blocks[i].net)[2]
               /\ blocks[i].a.name = links[i].a_iface
               /\ blocks[i].b.name = links[i].b_iface
               /\ \E j \in 1..Len(interfaces_cfg[links[i].a]) :
                      interfaces_cfg[links[i].a][j] = blocks[i].a
               /\ \E j \in 1..Len(interfaces_cfg[links[i].b]) :
                      interfaces_cfg[links[i].b][j] = blocks[i].b
        /\ (pc = "done" /\ IsChainOfTwo /\ ip_base = FourBlock(1)) =>
               /\ blocks[1].net = FourBlock(1)
               /\ blocks[2].net = FourBlock(2)
               /\ [j \in 1..Len(interfaces_cfg[R1]) |-> interfaces_cfg[R1][j].ip]
                      = <<Addr(4, 1)>>
               /\ [j \in 1..Len(interfaces_cfg[R2]) |-> interfaces_cfg[R2][j].ip]
                      = <<Addr(4, 2), Addr(4, 5)>>
               /\ [j \in 1..Len(interfaces_cfg[R3]) |-> interfaces_cfg[R3][j].ip]
                      = <<Addr(4, 6)>>

\* the scenario has run to the end: R2 holds 2 on the first link and 5 on the second
C10_Witness ==
    /\ prog \in {"rip", "rip_cfg"}
    /\ pc = "done"
    /\ IsChainOfTwo
    /\ ip_base = FourBlock(1)
    /\ Len(blocks) = 2
    /\ blocks[2].a.ip = Addr(4, 5)

\* the base addresses of the blocks of the links router n is an end of
BlockBasesOf(n) ==
    {network_address(blocks[i].net) :
        i \in {x \in 1..Len(blocks) : n \in {links[x].a, links[x].b}}}

\* C11: in the output of the RIP programs every router's rip_networks list
\* holds exactly the base addresses of the blocks of the links the router is an
\* end of, each once, in ascending order of their text; the three together fix
\* the list from the set alone, whatever the order in which the links added
\* their addresses.
C11_RipNetworksSortedOnce ==
    (prog \in {"rip", "rip_cfg"} /\ pc = "done") =>
        \A j \in 1..Len(topology_data.routers) :
            LET lst == topology_data.routers[j].rip_networks
                n   == topology_data.routers[j].name
            IN  /\ Range(lst) = BlockBasesOf(n)
                /\ Len(lst) = Cardinality(BlockBasesOf(n))
                /\ \A x, y \in 1..Len(lst) :
                       x < y => StrLess(str_addr(lst[x]), str_addr(lst[y]))

\* R1 is on the first and the third link of the chain, whose blocks are at 4
\* and 12: the text "12" comes before the text "4"
C11_Witness ==
    /\ prog \in {"rip", "rip_cfg"}
    /\ pc = "done"
    /\ Len(links) = 3
    /\ \E j \in 1..Len(topology_data.routers) :
           /\ topology_data.routers[j].name = R1
           /\ topology_data.routers[j].rip_networks = <<Addr(4, 12), Addr(4, 4)>>

\* C12: no run is aborted by an exception: whatever the base network and the
\* link list, every program goes on to its end.
C12_NoRunAborts == pc # "abort" /\ err = ""

\* both end ids of a raw link name a router of the node list
IsResolvable(l) == l.a.node_id \in KnownIds /\ l.b.node_id \in KnownIds

\* the raw links that resolve, in input order: the input with the others removed
ResolvableOnly == SelectSeq(links_data, IsResolvable)

\* C13: once an extractor has read the topology, the links it keeps are those
\* of the input with the unresolvable raw links removed, in input order, so
\* that only kept links are given blocks; and when a raw link was skipped, a
\* warning has been logged for it.
C13_UnresolvedLinkSkippedWithWarning ==
    (prog \in {"rip", "bgp"} /\ pc # "start") =>
        /\ Len(links) = Len(ResolvableOnly)
        /\ links = ResolvedLinks(ResolvableOnly)
        /\ Len(blocks) <= Len(links)
        /\ \A i \in 1..Len(blocks) :
               /\ blocks[i].a.name = links[i].a_iface
               /\ blocks[i].b.name = links[i].b_iface
        /\ Len(log) >= Len(links_data) - Len(ResolvableOnly)

\* the records written for router n by the first i links, in link order, end a
\* before end b
RECURSIVE IfacesInLinkOrder(_, _)
IfacesInLinkOrder(n, i) ==
    IF i = 0 THEN <<>>
    ELSE IfacesInLinkOrder(n, i - 1)
             \o (IF links[i].a = n THEN <<blocks[i].a>> ELSE <<>>)
             \o (IF links[i].b = n THEN <<blocks[i].b>> ELSE <<>>)

\* router n is an end of no link
IsLinkless(n) == \A i \in 1..Len(links) : n \notin {links[i].a, links[i].b}

\* the link loop has run through all links and the output stage has been entered
OutputStageOver ==
    \/ prog \in {"rip", "bgp"} /\ pc = "done"
    \/ prog = "rip_cfg" /\ pc \in {"done", "abort"} /\ k > Len(links)

\* the names of the two routers of an output link record
OutputLinkEnds(l) ==
    IF prog = "rip" THEN <<l.router_a, l.interface_a, l.router_b, l.interface_b>>
    ELSE <<l.a, l.a_iface, l.b, l.b_iface>>

\* C14: once extract_topology, extract_topology_bgp or the per-router loop of
\* cfg_generation is over, the output holds one record per router of the node
\* list, in input order, a router without link included, with empty lists;
\* every router's interfaces are in link order; and the output links are the
\* accepted links, each once, in input order.
C14_OneRecordPerRouterInOrder ==
    OutputStageOver =>
        /\ topology_data # NoData
        /\ Len(topology_data.routers) = Len(nodes_data)
        /\ \A j \in 1..Len(nodes_data) :
               LET rec == topology_data.routers[j]
               IN  /\ rec.name = nodes_data[j].name
                   /\ rec.interfaces = IfacesInLinkOrder(rec.name, Len(links))
                   /\ IsLinkless(rec.name) =>
                          /\ rec.interfaces = <<>>
                          /\ IF prog = "bgp" THEN rec.neighbors = <<>>
                             ELSE rec.rip_networks = <<>>
        /\ Len(topology_data.links) = Len(links)
        /\ \A i \in 1..Len(links) :
               OutputLinkEnds(topology_data.links[i]) =
                   <<links[i].a, links[i].a_iface, links[i].b, links[i].b_iface>>

\* the block reached from net by j advances of the RIP code, NoNet once one fails
RECURSIVE LegacyAdvance(_, _)
LegacyAdvance(net, j) ==
    IF j = 0 \/ net = NoNet THEN net ELSE LegacyAdvance(RipNextNet(net), j - 1)

\* the block reached from net by j advances of the BGP code, NoNet once one fails
RECURSIVE DirectAdvance(_, _)
DirectAdvance(net, j) ==
    IF j = 0 \/ net = NoNet THEN net ELSE DirectAdvance(BgpNextNet(net), j - 1)

\* C15: the advance of the RIP code (single-address network at base + count,
\* then its supernet at the block's prefix length) and the advance of the BGP
\* code (network of the block's prefix length at base + count) give the same
\* next block, or both fail, from the base network through every step of the
\* allocation sequence, and on the block a run is standing on.
C15_LegacyAndDirectAdvanceAgree ==
    prog \in FixedBlockProgs =>
        /\ \A j \in 0..(MaxChain + 1) :
               LegacyAdvance(ip_base, j) = DirectAdvance(ip_base, j)
        /\ pc # "start" => RipNextNet(current_net) = BgpNextNet(current_net)
        /\ \A i \in 1..Len(blocks) :
               /\ blocks[i].net = LegacyAdvance(ip_base, i - 1)
               /\ blocks[i].net = DirectAdvance(ip_base, i - 1)

\* a run has advanced from the last IPv4 block of its prefix length to the
\* IPv6 block at 0 and from there on
C15_Witness ==
    /\ prog = "bgp"
    /\ Len(blocks) = 3
    /\ blocks[1].net.fam = 4
    /\ blocks[2].net = Net(6, 0, ip_base.prefixlen)
    /\ blocks[3].net.addr > 0
    /\ RipNextNet(blocks[1].net) = blocks[2].net

\* in the lines, a stanza opened by "interface name" holds a line with the text
\* before its closing "!"
StanzaHas(lines, name, text) ==
    \E i \in 1..Len(lines) :
        /\ lines[i].text = "interface"
        /\ lines[i].arg = name
        /\ \E x \in (i + 1)..Len(lines) :
               /\ lines[x].text = text
               /\ \A y \in (i + 1)..x : lines[y].text # "!"

\* the same, the line being the address line of the given assignment
StanzaHasAddress(lines, name, val) ==
    \E i \in 1..Len(lines) :
        /\ lines[i].text = "interface"
        /\ lines[i].arg = name
        /\ \E x \in (i + 1)..Len(lines) :
               /\ lines[x].text = " ipv6 address"
               /\ lines[x].arg = val
               /\ \A y \in (i + 1)..x : lines[y].text # "!"

\* the interfaces router r lists in the input
ListedInterfaces(r) ==
    UNION {{nodes_data[j].interfaces[x].name : x \in 1..Len(nodes_data[j].interfaces)} :
              j \in {y \in 1..Len(nodes_data) : nodes_data[y].name = r}}

\* the interface is rendered up: its address, no shutdown, and OSPF enabled
RenderedUp(r, n) ==
    /\ StanzaHasAddress(config_lines[r], n, ipv6_assignments[OspfKey(r, n)])
    /\ StanzaHas(config_lines[r], n, " no shutdown")
    /\ StanzaHas(config_lines[r], n, " ipv6 ospf 1 area 0")

\* the interface is rendered shut down, without address and without OSPF
RenderedDown(r, n) ==
    /\ StanzaHas(config_lines[r], n, " shutdown")
    /\ ~StanzaHas(config_lines[r], n, " ipv6 address")
    /\ ~StanzaHas(config_lines[r], n, " no shutdown")
    /\ ~StanzaHas(config_lines[r], n, " ipv6 ospf 1 area 0")

\* the ends of the links that were left without addresses
UnallocatedEnds ==
    UNION {{<<links[i].a, links[i].a_iface>>, <<links[i].b, links[i].b_iface>>} :
              i \in (Len(blocks) + 1)..Len(links)}

\* C16: in a configuration written by create_ospfv3_config a listed interface
\* is rendered with its address, no shutdown and OSPF enabled when (router,
\* interface) has an entry in the address map, and shut down without OSPF
\* statement otherwise; and the interfaces of the links left without addresses
\* are rendered shut down on both ends.
C16_InterfaceUpIffAssigned ==
    prog = "ospf" =>
        \A r \in DOMAIN config_lines :
            /\ \A n \in ListedInterfaces(r) :
                   IF OspfKey(r, n) \in DOMAIN ipv6_assignments
                   THEN RenderedUp(r, n) /\ ~StanzaHas(config_lines[r], n, " shutdown")
                   ELSE RenderedDown(r, n)
            /\ \A e \in UnallocatedEnds :
                   (e[1] = r /\ e[2] \in ListedInterfaces(r)) =>
                       StanzaHas(config_lines[r], e[2], " shutdown")

\* C17: in a run of main_bgp, cfg_generation_bgp is executed at most once, only
\* on the topology_bgp.json that extract_topology_bgp has written in this run,
\* never before the extraction is over, and exactly once when the run is over.
C17_ConfigGenerationOnceAfterExtraction ==
    prog = "main_bgp" =>
        /\ Len(cfg_runs) <= 1
        /\ \A i \in 1..Len(cfg_runs) : cfg_runs[i] = "fresh"
        /\ pc \in {"import", "start", "alloc", "neighbors", "generate"} => cfg_runs = <<>>
        /\ pc = "done" => Len(cfg_runs) = 1

====
